---- MODULE Spec2Model ----
(***************************************************************************)
(* Model of utils/utils.py: the paired random crop (random_crop), the      *)
(* directory-backed paired dataset (CustomDataset) and the checkpoint      *)
(* writer (save_checkpoint).                                               *)
(*                                                                         *)
(* Strings are sequences of one-character strings, so that endswith, path  *)
(* joining and number formatting are computed and not assumed.             *)
(* Five specifications share the variables:                               *)
(*   SpecCrop  one call of random_crop on inputs drawn from bounded sets;  *)
(*   SpecNew   the construction of a CustomDataset on bounded directories; *)
(*   SpecData  a CustomDataset, its workers and a changing directory;      *)
(*   SpecSeq   save_checkpoint called in sequence by one caller;           *)
(*   SpecConc  save_checkpoint run step by step by concurrent callers.     *)
(***************************************************************************)
EXTENDS Integers, Sequences, FiniteSets, TLC

VARIABLES
    crop_pc,     \* position of the random_crop call: "idle", "call", "done"
    crop_in,     \* its arguments
    crop_out,    \* its outcome
    lowres_fs,   \* lowres_dir: file name -> "absent", "ok", "bad"
    highres_fs,  \* highres_dir: file name -> "absent", "ok", "bad"
    ds,          \* the CustomDataset object
    wk,          \* worker -> position and outcome of its current call
    stdout,      \* the lines printed so far
    budget,      \* calls and directory changes still allowed (model bound)
    ckpt_fs,     \* the checkpoint directory: whether it exists, and its files
    sv,          \* caller -> position and outcome of its save_checkpoint call
    saves        \* sequential save_checkpoint calls made so far

vars == <<crop_pc, crop_in, crop_out, lowres_fs, highres_fs, ds, wk, stdout,
          budget, ckpt_fs, sv, saves>>

cropVars == <<crop_pc, crop_in, crop_out>>
dataVars == <<lowres_fs, highres_fs, ds, wk, stdout, budget>>
saveVars == <<ckpt_fs, sv, saves>>

-----------------------------------------------------------------------------
(* Bounds of the model.                                                    *)

MaxLowDim == 3     \* low-res width and height range over 1..MaxLowDim
MaxHighDim == 6    \* high-res width and height range over 1..MaxHighDim
MaxCrop == 4       \* hr_crop_size ranges over scale..MaxCrop
MaxScale == 2      \* scale ranges over 1..MaxScale

-----------------------------------------------------------------------------
(* Images and tensors.                                                     *)

Range(f) == {f[i] : i \in DOMAIN f}

\* An RGB image of PIL: size = (width, height), px maps (x, y) to its bands.
\* The bands are never 0, so that padding pixels can be told from image ones.
RGBImage(w, h) ==
    [size |-> <<w, h>>,
     px   |-> [p \in (0 .. w - 1) \X (0 .. h - 1) |-> <<p[1] + 1, p[2] + 1, 255>>]]

NoTensor == [shape |-> <<>>, data |-> <<>>]

\* Image.crop(box): the result has the size of the box whatever the image's
\* size; pixels of the box that lie outside the image are 0 in every band.
ImageCrop(img, box) ==
    LET w == box[3] - box[1]
        h == box[4] - box[2]
    IN  [size |-> <<w, h>>,
         px   |-> [p \in (0 .. w - 1) \X (0 .. h - 1) |->
                     LET q == <<box[1] + p[1], box[2] + p[2]>>
                     IN  IF q \in DOMAIN img.px THEN img.px[q] ELSE <<0, 0, 0>>]]

\* ToTensor(): channel-first (C, H, W), each band value v stored as v/255,
\* written here as the pair <<v, 255>>.
ToTensor(img) ==
    LET w == img.size[1]
        h == img.size[2]
    IN  [shape |-> <<3, h, w>>,
         data  |-> [i \in (1 .. 3) \X (0 .. h - 1) \X (0 .. w - 1) |->
                      <<img.px[<<i[3], i[2]>>][i[1]], 255>>]]

\* randint with an empty range clamped to its lower end.
randint_Clamped(a, b) == a .. (IF b < a THEN a ELSE b)

\* random.randint(a, b): the values it can return; none when b < a, where it
\* raises ValueError.
randint(a, b) == a .. b

-----------------------------------------------------------------------------
(* random_crop: the set of outcomes of one call.                           *)

CropError(size) ==
    [status |-> "ValueError", lowres_crop_size |-> size,
     lowres_x |-> -1, lowres_y |-> -1, highres_x |-> -1, highres_y |-> -1,
     lowres |-> NoTensor, highres |-> NoTensor, padded |-> 0]

\* The pixels of a crop that lie outside the image it was cut from.
Padded(img, box) ==
    Cardinality({p \in (box[1] .. box[3] - 1) \X (box[2] .. box[4] - 1) :
                    p \notin DOMAIN img.px})

\* Lines 22-30: both crops at the chosen origins, as tensors.
CropPair(lowres_img, highres_img, lowres_crop_size, hr_crop_size, lowres_x, lowres_y, highres_x, highres_y) ==
    LET lowres_box == <<lowres_x, lowres_y,
                        lowres_x + lowres_crop_size, lowres_y + lowres_crop_size>>
        highres_box == <<highres_x, highres_y,
                         highres_x + hr_crop_size, highres_y + hr_crop_size>>
    IN  [status |-> "ok", lowres_crop_size |-> lowres_crop_size,
         lowres_x |-> lowres_x, lowres_y |-> lowres_y,
         highres_x |-> highres_x, highres_y |-> highres_y,
         lowres |-> ToTensor(ImageCrop(lowres_img, lowres_box)),
         highres |-> ToTensor(ImageCrop(highres_img, highres_box)),
         padded |-> Padded(highres_img, highres_box)]

\* random_crop with the high-res crop cut at the low-res crop size.
random_crop_LowresSize(lowres_img, highres_img, hr_crop_size, scale) ==
    LET lowres_crop_size == hr_crop_size \div scale
        xs == randint(0, lowres_img.size[1] - lowres_crop_size)
        ys == randint(0, lowres_img.size[2] - lowres_crop_size)
    IN  IF xs = {} \/ ys = {}
        THEN {CropError(lowres_crop_size)}
        ELSE {CropPair(lowres_img, highres_img, lowres_crop_size, lowres_crop_size,
                       lowres_x, lowres_y, lowres_x * scale, lowres_y * scale)
              : lowres_x \in xs, lowres_y \in ys}

\* random_crop with highres_y computed from lowres_x.
random_crop_SwappedY(lowres_img, highres_img, hr_crop_size, scale) ==
    LET lowres_crop_size == hr_crop_size \div scale
        xs == randint(0, lowres_img.size[1] - lowres_crop_size)
        ys == randint(0, lowres_img.size[2] - lowres_crop_size)
    IN  IF xs = {} \/ ys = {}
        THEN {CropError(lowres_crop_size)}
        ELSE {CropPair(lowres_img, highres_img, lowres_crop_size, hr_crop_size,
                       lowres_x, lowres_y, lowres_x * scale, lowres_x * scale)
              : lowres_x \in xs, lowres_y \in ys}

random_crop(lowres_img, highres_img, hr_crop_size, scale) ==
    LET lowres_crop_size == hr_crop_size \div scale
        xs == randint(0, lowres_img.size[1] - lowres_crop_size)
        ys == randint(0, lowres_img.size[2] - lowres_crop_size)
    IN  IF xs = {} \/ ys = {}
        THEN {CropError(lowres_crop_size)}
        ELSE {CropPair(lowres_img, highres_img, lowres_crop_size, hr_crop_size,
                       lowres_x, lowres_y, lowres_x * scale, lowres_y * scale)
              : lowres_x \in xs, lowres_y \in ys}

NoCrop == CropError(0)

-----------------------------------------------------------------------------
(* SpecCrop: one call of random_crop.                                      *)

CropIdle ==
    /\ crop_pc = "idle"
    /\ crop_in = [lw |-> 1, lh |-> 1, hw |-> 1, hh |-> 1,
                  hr_crop_size |-> 1, scale |-> 1]
    /\ crop_out = NoCrop

CropInputs ==
    {i \in [lw : 1 .. MaxLowDim, lh : 1 .. MaxLowDim,
            hw : 1 .. MaxHighDim, hh : 1 .. MaxHighDim,
            hr_crop_size : 1 .. MaxCrop, scale : 1 .. MaxScale] :
        i.hr_crop_size >= i.scale}

RandomCrop ==
    /\ crop_pc = "call"
    /\ \E r \in random_crop(RGBImage(crop_in.lw, crop_in.lh),
                            RGBImage(crop_in.hw, crop_in.hh),
                            crop_in.hr_crop_size, crop_in.scale) :
          crop_out' = r
    /\ crop_pc' = "done"
    /\ UNCHANGED <<crop_in, dataVars, saveVars>>

-----------------------------------------------------------------------------
(* Strings, file names and paths.                                          *)

\* str.endswith(suffix)
EndsWith(s, suffix) ==
    /\ Len(s) >= Len(suffix)
    /\ SubSeq(s, Len(s) - Len(suffix) + 1, Len(s)) = suffix

\* str.endswith(tuple of suffixes)
EndsWithAny(s, suffixes) == \E i \in DOMAIN suffixes : EndsWith(s, suffixes[i])

\* The extensions without '.jpeg', and with '.PNG' added.
Extensions_NoJpeg ==
    << <<".", "p", "n", "g">>, <<".", "j", "p", "g">>, <<".", "P", "N", "G">> >>

\* The tuple ('.png', '.jpg', '.jpeg') of CustomDataset.__init__.
Extensions ==
    << <<".", "p", "n", "g">>, <<".", "j", "p", "g">>, <<".", "j", "p", "e", "g">> >>

\* os.path.join(dir, name) for a name without separators.
PathJoin(dir, name) == dir \o <<"/">> \o name

\* The names a directory of the model may hold.
FileNames ==
    { <<"a", ".", "p", "n", "g">>, <<"b", ".", "j", "p", "g">>,
      <<"c", ".", "j", "p", "e", "g">>, <<"d", ".", "P", "N", "G">>,
      <<"e", ".", "t", "x", "t">>, <<"p", "n", "g">> }

LowresDir == <<"l", "r">>
HighresDir == <<"h", "r">>

\* All orders of a finite set: os.listdir returns the entries in arbitrary
\* order.
RECURSIVE Orders(_)
Orders(S) ==
    IF S = {} THEN {<<>>}
    ELSE UNION {{<<x>> \o p : p \in Orders(S \ {x})} : x \in S}

\* os.listdir(dir): the lists it can return for the directory fs.
listdir(fs) == Orders({n \in DOMAIN fs : fs[n] # "absent"})

-----------------------------------------------------------------------------
(* Image files.                                                            *)

\* A decodable file of lowres_dir holds a grayscale image of this size, one
\* of highres_dir an image scale times as large.
LowresFileSize == <<2, 1>>

GrayImage(w, h) ==
    [size |-> <<w, h>>,
     px   |-> [p \in (0 .. w - 1) \X (0 .. h - 1) |-> 1 + p[1] + p[2]]]

\* Image.convert('RGB') of a grayscale image: the level in each band.
ConvertRGB(img) ==
    [size |-> img.size,
     px   |-> [p \in DOMAIN img.px |-> <<img.px[p], img.px[p], img.px[p]>>]]

\* Image.open(path).convert('RGB'): the image, or the exception raised.
ImageOpen(status, size) ==
    CASE status = "absent" -> [error |-> "FileNotFoundError", img |-> <<>>]
      [] status = "bad"    -> [error |-> "UnidentifiedImageError", img |-> <<>>]
      [] OTHER             -> [error |-> "none",
                               img |-> ConvertRGB(GrayImage(size[1], size[2]))]

-----------------------------------------------------------------------------
(* CustomDataset.                                                          *)

\* A printed line: the message and the values formatted into it.
Line(msg, n, path1, path2, e) ==
    [msg |-> msg, n |-> n, path1 |-> path1, path2 |-> path2, e |-> e]

DataCrop == 2      \* hr_crop_size of the dataset of the model
DataScale == 2     \* scale of the dataset of the model
MaxCalls == 2      \* __len__ and __getitem__ calls made in a behaviour
MaxChanges == 1    \* directory changes made in a behaviour

Workers == {"w1", "w2"}

NoDataset ==
    [constructed |-> FALSE, lowres_dir |-> <<>>, highres_dir |-> <<>>,
     image_files |-> <<>>, hr_crop_size |-> 0, scale |-> 0]

NoResult == [status |-> "none", value |-> 0, crop |-> NoCrop]

IdleWorker ==
    [pc |-> "idle", op |-> "none", idx |-> 0, lowres_path |-> <<>>,
     highres_path |-> <<>>, name |-> <<>>, e |-> "none", crops |-> 0,
     result |-> NoResult]

DataIdle ==
    /\ lowres_fs = [n \in FileNames |-> "absent"]
    /\ highres_fs = [n \in FileNames |-> "absent"]
    /\ ds = NoDataset
    /\ wk = [w \in Workers |-> IdleWorker]
    /\ stdout = <<>>
    /\ budget = [calls |-> 0, changes |-> 0]

\* The list comprehension of __init__: the listed names with an extension.
ImageFiles(listing) == SelectSeq(listing, LAMBDA f : EndsWithAny(f, Extensions))

\* CustomDataset.__init__
Construct ==
    /\ ~ds.constructed
    /\ \E listing \in listdir(lowres_fs) :
          LET image_files == ImageFiles(listing)
          IN  /\ ds' = [constructed |-> TRUE, lowres_dir |-> LowresDir,
                        highres_dir |-> HighresDir, image_files |-> image_files,
                        hr_crop_size |-> DataCrop, scale |-> DataScale]
              /\ stdout' = Append(stdout,
                    IF Len(image_files) = 0
                    THEN Line("No image files found in", 0, LowresDir, <<>>, "none")
                    ELSE Line("Found", Len(image_files), LowresDir, <<>>, "none"))
    /\ UNCHANGED <<lowres_fs, highres_fs, wk, budget, cropVars, saveVars>>

\* __len__ listing lowres_dir again instead of reading the stored list.
DatasetLen_Relist(w) ==
    /\ ds.constructed
    /\ wk[w].pc \in {"idle", "done"}
    /\ budget.calls > 0
    /\ budget' = [budget EXCEPT !.calls = @ - 1]
    /\ \E listing \in listdir(lowres_fs) :
          /\ ds' = [ds EXCEPT !.image_files = ImageFiles(listing)]
          /\ wk' = [wk EXCEPT ![w] =
                      [IdleWorker EXCEPT !.pc = "done", !.op = "len",
                          !.result = [NoResult EXCEPT !.status = "ok",
                                         !.value = Len(ImageFiles(listing))]]]
    /\ UNCHANGED <<lowres_fs, highres_fs, stdout, cropVars, saveVars>>

\* CustomDataset.__len__
DatasetLen(w) ==
    /\ ds.constructed
    /\ wk[w].pc \in {"idle", "done"}
    /\ budget.calls > 0
    /\ budget' = [budget EXCEPT !.calls = @ - 1]
    /\ wk' = [wk EXCEPT ![w] =
                [IdleWorker EXCEPT !.pc = "done", !.op = "len",
                    
                    !.result = [NoResult EXCEPT !.status = "ok",
                                                !.value = Len(ds.image_files)]]]
    /\ UNCHANGED <<lowres_fs, highres_fs, ds, stdout, cropVars, saveVars>>

\* list.__getitem__(idx) of Python: 0 when idx is out of range (IndexError),
\* else the position, from 1, that idx selects; a negative idx counts from
\* the end of the list.
ListIndex(list, idx) ==
    IF 0 <= idx /\ idx < Len(list) THEN idx + 1
    ELSE IF idx < 0 /\ idx >= -Len(list) THEN Len(list) + idx + 1
    ELSE 0

\* The indexes the workers ask for.
Indexes == {-3, -1, 0, 2}

\* CustomDataset.__getitem__, the two path computations.
GetItemPaths(w, idx) ==
    /\ ds.constructed
    /\ wk[w].pc \in {"idle", "done"}
    /\ budget.calls > 0
    /\ budget' = [budget EXCEPT !.calls = @ - 1]
    /\ LET at == ListIndex(ds.image_files, idx)
       IN  wk' = [wk EXCEPT ![w] =
                IF at = 0
                THEN [IdleWorker EXCEPT !.pc = "done", !.op = "getitem",
                         !.idx = idx,
                         !.result = [NoResult EXCEPT !.status = "IndexError"]]
                ELSE [IdleWorker EXCEPT !.pc = "paths", !.op = "getitem",
                         !.idx = idx,
                         !.name = ds.image_files[at],
                         !.lowres_path = PathJoin(ds.lowres_dir, ds.image_files[at]),
                         !.highres_path = PathJoin(ds.highres_dir, ds.image_files[at])]]
    /\ UNCHANGED <<lowres_fs, highres_fs, ds, stdout, cropVars, saveVars>>

\* The except clause without its raise: the call returns None.
LoadFailure_Swallowed(e) == [NoResult EXCEPT !.status = "ok"]

\* Line 62: the exception e of the load is raised again.
LoadFailure(e) == [NoResult EXCEPT !.status = e]

\* The size of the image a decodable file of highres_dir holds.
HighresFileSize == <<LowresFileSize[1] * ds.scale, LowresFileSize[2] * ds.scale>>

\* CustomDataset.__getitem__, line 58: the low-res file is opened and
\* converted; a failure enters the except clause.
GetItemOpenLow(w) ==
    /\ wk[w].pc = "paths"
    /\ LET lowres_image == ImageOpen(lowres_fs[wk[w].name], LowresFileSize)
       IN  wk' = [wk EXCEPT ![w].pc = IF lowres_image.error # "none" THEN "except"
                                      ELSE "low",
                            ![w].e = lowres_image.error]
    /\ UNCHANGED <<lowres_fs, highres_fs, ds, stdout, budget, cropVars, saveVars>>

\* CustomDataset.__getitem__, line 59: the high-res file is opened and
\* converted; a failure enters the except clause.
GetItemOpenHigh(w) ==
    /\ wk[w].pc = "low"
    /\ LET highres_image == ImageOpen(highres_fs[wk[w].name], HighresFileSize)
       IN  wk' = [wk EXCEPT ![w].pc = IF highres_image.error # "none" THEN "except"
                                      ELSE "high",
                            ![w].e = highres_image.error]
    /\ UNCHANGED <<lowres_fs, highres_fs, ds, stdout, budget, cropVars, saveVars>>

\* CustomDataset.__getitem__, lines 60-62: the failure is printed with both
\* paths and raised again.
GetItemExcept(w) ==
    /\ wk[w].pc = "except"
    /\ stdout' = Append(stdout, Line("Error loading image", 0,
                            wk[w].lowres_path, wk[w].highres_path, wk[w].e))
    /\ wk' = [wk EXCEPT ![w].pc = "done", ![w].result = LoadFailure(wk[w].e)]
    /\ UNCHANGED <<lowres_fs, highres_fs, ds, budget, cropVars, saveVars>>

\* CustomDataset.__getitem__, lines 65-69: random_crop on the two images
\* that were loaded.
GetItemCrop(w) ==
    /\ wk[w].pc = "high"
    /\ \E r \in random_crop(ImageOpen("ok", LowresFileSize).img,
                            ImageOpen("ok", HighresFileSize).img,
                            ds.hr_crop_size, ds.scale) :
          wk' = [wk EXCEPT ![w].pc = "done",
                           ![w].crops = @ + 1,
                           ![w].result = [NoResult EXCEPT
                                !.status = r.status, !.crop = r]]
    /\ UNCHANGED <<lowres_fs, highres_fs, ds, stdout, budget, cropVars, saveVars>>

\* The environment: a file of lowres_dir appears, vanishes or is damaged.
LowresChange(n, status) ==
    /\ budget.changes > 0
    /\ lowres_fs[n] # status
    /\ lowres_fs' = [lowres_fs EXCEPT ![n] = status]
    /\ budget' = [budget EXCEPT !.changes = @ - 1]
    /\ UNCHANGED <<highres_fs, ds, wk, stdout, cropVars, saveVars>>

\* The environment: a file of highres_dir appears, vanishes or is damaged.
HighresChange(n, status) ==
    /\ budget.changes > 0
    /\ highres_fs[n] # status
    /\ highres_fs' = [highres_fs EXCEPT ![n] = status]
    /\ budget' = [budget EXCEPT !.changes = @ - 1]
    /\ UNCHANGED <<lowres_fs, ds, wk, stdout, cropVars, saveVars>>

-----------------------------------------------------------------------------
(* save_checkpoint.                                                        *)

MaxEpoch == 10     \* epoch ranges over 0..MaxEpoch
MaxSaves == 2      \* sequential save_checkpoint calls made in a behaviour

Callers == {"c1", "c2"}
Models == {"m1", "m2"}
CheckpointDir == <<"c", "k">>

Digit(d) == <<"0", "1", "2", "3", "4", "5", "6", "7", "8", "9">>[d + 1]

\* str(n) of a non-negative integer, as the f-string formats epoch.
RECURSIVE Str(_)
Str(n) == IF n < 10 THEN <<Digit(n)>> ELSE Str(n \div 10) \o <<Digit(n % 10)>>

\* os.path.join(checkpoint_dir, f'model_epoch_{epoch}_64_numfeatures.pth')
CheckpointPath(checkpoint_dir, epoch) ==
    PathJoin(checkpoint_dir,
             <<"m", "o", "d", "e", "l", "_", "e", "p", "o", "c", "h", "_">>
             \o Str(epoch)
             \o <<"_", "6", "4", "_", "n", "u", "m", "f", "e", "a", "t", "u", "r",
                  "e", "s", ".", "p", "t", "h">>)

\* os.path.exists(checkpoint_dir)
PathExists(fs) == fs.exists

\* os.makedirs(checkpoint_dir): FileExistsError when the directory exists.
makedirs(fs) ==
    IF fs.exists THEN [error |-> "FileExistsError", fs |-> fs]
    ELSE [error |-> "none", fs |-> [fs EXCEPT !.exists = TRUE]]

\* The contents of a file that was opened for writing and not written yet,
\* and of a file that two overlapping writers wrote.
Truncated ==
    [model_state_dict |-> "none", optimizer_state_dict |-> "none", epoch |-> -1]
Corrupt ==
    [model_state_dict |-> "corrupt", optimizer_state_dict |-> "corrupt", epoch |-> -1]

FileAt(fs, path) == {f \in fs.files : f.path = path}

\* torch.save(obj, path), its start: the file at path is created or
\* truncated by caller c; it fails when the directory is not there. A file
\* that another caller is still writing is from then on written by both.
torch_open(fs, path, c) ==
    IF ~fs.exists THEN [error |-> "FileNotFoundError", fs |-> fs]
    ELSE LET writers == UNION {f.open : f \in FileAt(fs, path)}
         IN  [error |-> "none",
              fs |-> [fs EXCEPT !.files =
                        (@ \ FileAt(fs, path))
                        \cup {[path |-> path, obj |-> Truncated,
                               open |-> writers \cup {c}, torn |-> writers # {}]}]]

\* torch.save(obj, path), its end: the directories that can result when
\* caller c has written obj and closed the file. Alone, the file holds obj;
\* when writers overlapped, it holds obj, what the other writer left, or a
\* mixture of the two.
torch_write(fs, path, obj, c) ==
    LET f == CHOOSE g \in FileAt(fs, path) : TRUE
        objs == IF f.torn
                THEN {obj, Corrupt} \cup (IF f.obj = Truncated THEN {} ELSE {f.obj})
                ELSE {obj}
    IN  {[fs EXCEPT !.files = (@ \ {f}) \cup {[f EXCEPT !.obj = o, !.open = @ \ {c}]}]
            : o \in objs}

\* torch.save(obj, path) by caller c with no other caller running.
torch_save(fs, path, obj, c) ==
    LET opened == torch_open(fs, path, c)
    IN  IF opened.error # "none" THEN opened
        ELSE [error |-> "none",
              fs |-> CHOOSE r \in torch_write(opened.fs, path, obj, c) : TRUE]

\* The dictionary save_checkpoint hands to torch.save.
CheckpointRecord(model, optimizer, epoch) ==
    [model_state_dict |-> model, optimizer_state_dict |-> optimizer,
     epoch |-> epoch]

\* The directory created without the existence check.
EnsureDir_Always(fs) == makedirs(fs)

\* Lines 80-81: the directory is created when it is not seen to exist.
EnsureDir(fs) == IF ~PathExists(fs) THEN makedirs(fs) ELSE [error |-> "none", fs |-> fs]

IdleCaller ==
    [pc |-> "idle", model |-> "m1", optimizer |-> "m1", epoch |-> 0,
     seen |-> FALSE, status |-> "none", path |-> <<>>]

SaveIdle ==
    /\ ckpt_fs = [exists |-> FALSE, files |-> {}]
    /\ sv = [c \in Callers |-> IdleCaller]
    /\ saves = 0

\* save_checkpoint, a whole call by caller c1 with no other caller running.
SaveCheckpoint(model, optimizer, epoch) ==
    /\ saves < MaxSaves
    /\ saves' = saves + 1
    /\ LET dir == EnsureDir(ckpt_fs)
           checkpoint_path == CheckpointPath(CheckpointDir, epoch)
           saved == torch_save(dir.fs, checkpoint_path,
                               CheckpointRecord(model, optimizer, epoch), "c1")
           call == [IdleCaller EXCEPT !.model = model, !.optimizer = optimizer,
                                      !.epoch = epoch, !.pc = "done"]
       IN  IF dir.error # "none"
           THEN /\ ckpt_fs' = dir.fs
                /\ sv' = [sv EXCEPT !["c1"] = [call EXCEPT !.status = dir.error]]
                /\ stdout' = stdout
           ELSE IF saved.error # "none"
           THEN /\ ckpt_fs' = saved.fs
                /\ sv' = [sv EXCEPT !["c1"] =
                            [call EXCEPT !.status = saved.error,
                                         !.path = checkpoint_path]]
                /\ stdout' = stdout
           ELSE /\ ckpt_fs' = saved.fs
                /\ sv' = [sv EXCEPT !["c1"] =
                            [call EXCEPT !.status = "ok", !.path = checkpoint_path]]
                /\ stdout' = Append(stdout, Line("Checkpoint saved at", 0,
                                                 checkpoint_path, <<>>, "none"))
    /\ UNCHANGED <<lowres_fs, highres_fs, ds, wk, budget, cropVars>>

\* Line 80 run by caller c: the existence check.
SaveExists(c) ==
    /\ sv[c].pc = "start"
    /\ sv' = [sv EXCEPT ![c].pc = "checked", ![c].seen = PathExists(ckpt_fs)]
    /\ UNCHANGED <<ckpt_fs, saves, dataVars, cropVars>>

\* Line 81 run by caller c: the directory is created if it was not seen.
SaveMakedirs(c) ==
    /\ sv[c].pc = "checked"
    /\ LET dir == IF ~sv[c].seen THEN makedirs(ckpt_fs)
                  ELSE [error |-> "none", fs |-> ckpt_fs]
       IN  /\ ckpt_fs' = dir.fs
           /\ sv' = [sv EXCEPT ![c].pc = IF dir.error = "none" THEN "ready" ELSE "done",
                               ![c].status = dir.error]
    /\ UNCHANGED <<saves, dataVars, cropVars>>

\* Lines 82-88 run by caller c, first part: the path is computed and
\* torch.save creates or truncates the file.
SaveTorchOpen(c) ==
    /\ sv[c].pc = "ready"
    /\ LET checkpoint_path == CheckpointPath(CheckpointDir, sv[c].epoch)
           opened == torch_open(ckpt_fs, checkpoint_path, c)
       IN  /\ ckpt_fs' = opened.fs
           /\ sv' = [sv EXCEPT ![c].pc = IF opened.error # "none" THEN "done"
                                         ELSE "writing",
                               ![c].status = opened.error,
                               ![c].path = checkpoint_path]
    /\ UNCHANGED <<saves, dataVars, cropVars>>

\* Lines 84-88 run by caller c, second part: torch.save writes the record
\* and closes the file.
SaveTorchWrite(c) ==
    /\ sv[c].pc = "writing"
    /\ ckpt_fs' \in torch_write(ckpt_fs, sv[c].path,
                       CheckpointRecord(sv[c].model, sv[c].optimizer, sv[c].epoch), c)
    /\ sv' = [sv EXCEPT ![c].pc = "saved"]
    /\ UNCHANGED <<saves, dataVars, cropVars>>

\* Line 89 run by caller c: the path is printed and the call returns.
SavePrint(c) ==
    /\ sv[c].pc = "saved"
    /\ stdout' = Append(stdout, Line("Checkpoint saved at", 0, sv[c].path, <<>>, "none"))
    /\ sv' = [sv EXCEPT ![c].pc = "done", ![c].status = "ok"]
    /\ UNCHANGED <<ckpt_fs, saves, lowres_fs, highres_fs, ds, wk, budget, cropVars>>

-----------------------------------------------------------------------------
(* The specifications.                                                     *)

InitCrop ==
    /\ crop_pc = "call"
    /\ crop_in \in CropInputs
    /\ crop_out = NoCrop
    /\ DataIdle
    /\ SaveIdle

NextCrop == RandomCrop

SpecCrop == InitCrop /\ [][NextCrop]_vars

InitNew ==
    /\ lowres_fs \in [FileNames -> {"absent", "ok"}]
    /\ highres_fs = [n \in FileNames |-> "absent"]
    /\ ds = NoDataset
    /\ wk = [w \in Workers |-> IdleWorker]
    /\ stdout = <<>>
    /\ budget = [calls |-> 0, changes |-> 0]
    /\ CropIdle
    /\ SaveIdle

NextNew == Construct

SpecNew == InitNew /\ [][NextNew]_vars

\* lowres_dir holds two images and a text file; highres_dir holds the second
\* image, and the first is there, missing or damaged.
InitData ==
    /\ lowres_fs = [n \in FileNames |->
                      IF n \in {<<"a", ".", "p", "n", "g">>, <<"b", ".", "j", "p", "g">>,
                                <<"e", ".", "t", "x", "t">>}
                      THEN "ok" ELSE "absent"]
    /\ \E status \in {"absent", "ok", "bad"} :
          highres_fs = [n \in FileNames |->
                          IF n = <<"a", ".", "p", "n", "g">> THEN status
                          ELSE IF n = <<"b", ".", "j", "p", "g">> THEN "ok"
                          ELSE "absent"]
    /\ ds = NoDataset
    /\ wk = [w \in Workers |-> IdleWorker]
    /\ stdout = <<>>
    /\ budget = [calls |-> MaxCalls, changes |-> MaxChanges]
    /\ CropIdle
    /\ SaveIdle

\* The files the environment touches: one the dataset lists, one it does not.
ChangingNames == {<<"a", ".", "p", "n", "g">>, <<"c", ".", "j", "p", "e", "g">>}

NextData ==
    \/ Construct
    \/ \E w \in Workers : DatasetLen(w)
    \/ \E w \in Workers, idx \in Indexes : GetItemPaths(w, idx)
    \/ \E w \in Workers : GetItemOpenLow(w)
    \/ \E w \in Workers : GetItemOpenHigh(w)
    \/ \E w \in Workers : GetItemExcept(w)
    \/ \E w \in Workers : GetItemCrop(w)
    \/ \E n \in ChangingNames, status \in {"absent", "ok"} : LowresChange(n, status)
    \/ \E n \in ChangingNames, status \in {"absent", "ok"} : HighresChange(n, status)

SpecData == InitData /\ [][NextData]_vars

InitSeq ==
    /\ ckpt_fs = [exists |-> FALSE, files |-> {}]
    /\ sv = [c \in Callers |-> IdleCaller]
    /\ saves = 0
    /\ stdout = <<>>
    /\ lowres_fs = [n \in FileNames |-> "absent"]
    /\ highres_fs = [n \in FileNames |-> "absent"]
    /\ ds = NoDataset
    /\ wk = [w \in Workers |-> IdleWorker]
    /\ budget = [calls |-> 0, changes |-> 0]
    /\ CropIdle

NextSeq ==
    \E model \in Models, optimizer \in Models, epoch \in 0 .. MaxEpoch :
        SaveCheckpoint(model, optimizer, epoch)

SpecSeq == InitSeq /\ [][NextSeq]_vars

InitConc ==
    /\ ckpt_fs \in [exists : BOOLEAN, files : {{}}]
    /\ sv \in [Callers -> {[IdleCaller EXCEPT !.pc = "start", !.model = m, !.epoch = e] :
                              m \in Models, e \in 0 .. MaxEpoch}]
    /\ saves = 0
    /\ stdout = <<>>
    /\ lowres_fs = [n \in FileNames |-> "absent"]
    /\ highres_fs = [n \in FileNames |-> "absent"]
    /\ ds = NoDataset
    /\ wk = [w \in Workers |-> IdleWorker]
    /\ budget = [calls |-> 0, changes |-> 0]
    /\ CropIdle

NextConc ==
    \/ \E c \in Callers : SaveExists(c)
    \/ \E c \in Callers : SaveMakedirs(c)
    \/ \E c \in Callers : SaveTorchOpen(c)
    \/ \E c \in Callers : SaveTorchWrite(c)
    \/ \E c \in Callers : SavePrint(c)

SpecConc == InitConc /\ [][NextConc]_vars

-----------------------------------------------------------------------------
(* Properties of random_crop, under SpecCrop.                              *)

\* The arguments are as the contract asks: crop_size_hr divisible by scale,
\* a low-res image at least as large as the low-res crop, and a high-res
\* image scale times the low-res one.
CropContract ==
    /\ crop_in.hr_crop_size % crop_in.scale = 0
    /\ crop_in.lw * crop_in.scale >= crop_in.hr_crop_size
    /\ crop_in.lh * crop_in.scale >= crop_in.hr_crop_size
    /\ crop_in.hw = crop_in.lw * crop_in.scale
    /\ crop_in.hh = crop_in.lh * crop_in.scale

\* C1: under the contract, random_crop returns a low-res tensor of
\* (crop_size_hr/scale) x (crop_size_hr/scale) pixels and a high-res tensor of
\* crop_size_hr x crop_size_hr pixels, in three channels, whatever origin the
\* random source picks.
C1_CropSizes ==
    (crop_pc = "done" /\ CropContract) =>
        LET hr == crop_in.hr_crop_size
            lr == crop_in.hr_crop_size \div crop_in.scale
        IN  /\ crop_out.status = "ok"
            /\ crop_out.lowres.shape = <<3, lr, lr>>
            /\ crop_out.highres.shape = <<3, hr, hr>>
            /\ Cardinality(DOMAIN crop_out.lowres.data) = 3 * lr * lr
            /\ Cardinality(DOMAIN crop_out.highres.data) = 3 * hr * hr

C1_Witness ==
    /\ crop_pc = "done"
    /\ CropContract
    /\ crop_in.scale = 2
    /\ crop_in.hr_crop_size = 4
    /\ crop_in.lw = 3
    /\ crop_out.status = "ok"
    /\ crop_out.lowres_x = 1
    /\ crop_out.highres.shape = <<3, 4, 4>>

\* C2: in every successful call the low-res origin lies in
\* [0, width - crop_size_lr] x [0, height - crop_size_lr], the high-res origin
\* is (x_lr * scale, y_lr * scale), and the first pixel of each crop is the
\* image's pixel at that origin (or padding when the origin is outside).
C2_Origins ==
    (crop_pc = "done" /\ crop_out.status = "ok") =>
        LET lr == crop_in.hr_crop_size \div crop_in.scale
            x == crop_out.lowres_x
            y == crop_out.lowres_y
            inside == x * crop_in.scale < crop_in.hw /\ y * crop_in.scale < crop_in.hh
        IN  /\ 0 <= x /\ x <= crop_in.lw - lr
            /\ 0 <= y /\ y <= crop_in.lh - lr
            /\ crop_out.highres_x = x * crop_in.scale
            /\ crop_out.highres_y = y * crop_in.scale
            /\ lr > 0 => /\ crop_out.lowres.data[<<1, 0, 0>>] = <<x + 1, 255>>
                         /\ crop_out.lowres.data[<<2, 0, 0>>] = <<y + 1, 255>>
            /\ crop_out.highres.data[<<1, 0, 0>>] =
                   <<IF inside THEN x * crop_in.scale + 1 ELSE 0, 255>>
            /\ crop_out.highres.data[<<2, 0, 0>>] =
                   <<IF inside THEN y * crop_in.scale + 1 ELSE 0, 255>>

C2_Witness ==
    /\ crop_pc = "done"
    /\ crop_out.status = "ok"
    /\ crop_in.scale = 2
    /\ crop_out.lowres_x = 2
    /\ crop_out.lowres_y = 1
    /\ crop_out.highres_x = 4
    /\ crop_out.highres_y = 2

\* C3: when the low-res image is narrower or lower than the low-res crop
\* size, random_crop ends in an error and returns no crop.
C3_TooSmallFails ==
    LET lr == crop_in.hr_crop_size \div crop_in.scale
    IN  (crop_pc = "done" /\ (crop_in.lw < lr \/ crop_in.lh < lr)) =>
            /\ crop_out.status = "ValueError"
            /\ crop_out.lowres = NoTensor
            /\ crop_out.highres = NoTensor

C3_Witness ==
    /\ crop_pc = "done"
    /\ crop_in.hr_crop_size = 4
    /\ crop_in.scale = 2
    /\ crop_in.lw = 3
    /\ crop_in.lh = 1
    /\ crop_out.status = "ValueError"

\* C9: when the high-res crop rectangle at (x_lr * scale, y_lr * scale) of
\* side crop_size_hr extends past the high-res image, random_crop fails
\* instead of returning a crop with pixels from outside the image.
C9_HighresTooSmallFails ==
    crop_pc = "done" =>
        \/ crop_out.status # "ok"
        \/ /\ crop_out.highres_x + crop_in.hr_crop_size <= crop_in.hw
           /\ crop_out.highres_y + crop_in.hr_crop_size <= crop_in.hh
           /\ crop_out.padded = 0

-----------------------------------------------------------------------------
(* Properties of CustomDataset.                                            *)

a_png == <<"a", ".", "p", "n", "g">>
b_jpg == <<"b", ".", "j", "p", "g">>
c_jpeg == <<"c", ".", "j", "p", "e", "g">>
d_PNG == <<"d", ".", "P", "N", "G">>
e_txt == <<"e", ".", "t", "x", "t">>

\* The names of the model that end in exactly '.png', '.jpg' or '.jpeg'.
Recognized == {a_png, b_jpg, c_jpeg}

\* C4: __getitem__(i) for i outside [0, length()), negative i included,
\* signals an out-of-range error and returns no sample.
C4_OutOfRange ==
    \A w \in Workers :
        (/\ wk[w].op = "getitem"
         /\ wk[w].pc \in {"paths", "done"}
         /\ ~(0 <= wk[w].idx /\ wk[w].idx < Len(ds.image_files)))
        => (wk[w].pc = "done" /\ wk[w].result.status = "IndexError")

\* C5 (under SpecNew): construction never fails on a directory, and after it
\* the length is the number of entries of lowres_dir whose name ends in
\* exactly '.png', '.jpg' or '.jpeg'; the stored names are those entries, each
\* once; an image-free directory gives length 0 and the diagnostic line.
C5_Length ==
    LET expected == {n \in FileNames : lowres_fs[n] # "absent" /\ n \in Recognized}
    IN  /\ ~ds.constructed => ENABLED Construct
        /\ ds.constructed =>
              /\ Len(ds.image_files) = Cardinality(expected)
              /\ Range(ds.image_files) = expected
              /\ Len(stdout) = 1
              /\ stdout[1].msg = IF expected = {} THEN "No image files found in"
                                 ELSE "Found"
              /\ stdout[1].n = Cardinality(expected)

C5_Witness ==
    /\ ds.constructed
    /\ {n \in FileNames : lowres_fs[n] # "absent"} = {a_png, c_jpeg, d_PNG, e_txt}
    /\ Len(ds.image_files) = 2

LoadErrors == {"FileNotFoundError", "UnidentifiedImageError"}

\* Worker w takes the step that leaves position pc of its call.
Leaves(w, pc) == wk[w].pc = pc /\ wk'[w] # wk[w]

\* C6 (under SpecData): a name listed in lowres_dir but missing or
\* undecodable in highres_dir does not make construction fail: construction
\* lists it and prints no error. The failure comes when __getitem__ loads
\* that index: an open that finds its file missing or undecodable enters the
\* except clause, which prints the error with both paths and raises it to
\* the caller; no tensor pair is returned and random_crop is invoked only
\* after both opens succeeded.
C6_LazyLoadFailure ==
    [][/\ (~ds.constructed /\ ds'.constructed) =>
              /\ Range(ds'.image_files) =
                    {n \in Recognized : lowres_fs[n] # "absent"}
              /\ stdout'[Len(stdout')].msg # "Error loading image"
       /\ \A w \in Workers :
             /\ Leaves(w, "paths") =>
                   IF lowres_fs[wk[w].name] # "ok"
                   THEN wk'[w].pc = "except" /\ wk'[w].e \in LoadErrors
                   ELSE wk'[w].pc = "low"
             /\ Leaves(w, "low") =>
                   IF highres_fs[wk[w].name] # "ok"
                   THEN wk'[w].pc = "except" /\ wk'[w].e \in LoadErrors
                   ELSE wk'[w].pc = "high"
             /\ Leaves(w, "except") =>
                   /\ wk'[w].pc = "done"
                   /\ wk'[w].result.status = wk[w].e
                   /\ wk'[w].result.status \in LoadErrors
                   /\ wk'[w].result.crop = NoCrop
                   /\ wk'[w].crops = 0
                   /\ stdout' = Append(stdout,
                          Line("Error loading image", 0,
                               LowresDir \o <<"/">> \o wk[w].name,
                               HighresDir \o <<"/">> \o wk[w].name,
                               wk[w].e))
             /\ (wk'[w] # wk[w] /\ wk[w].pc # "except") =>
                   wk'[w].result.status \notin LoadErrors
             /\ wk'[w].crops > wk[w].crops => wk[w].pc = "high"
      ]_vars

C6_Witness ==
    /\ ds.constructed
    /\ lowres_fs[a_png] = "ok"
    /\ highres_fs[a_png] = "absent"
    /\ budget.changes = MaxChanges
    /\ wk["w1"].pc = "done"
    /\ wk["w1"].name = a_png
    /\ wk["w1"].result.status = "FileNotFoundError"
    /\ wk["w1"].crops = 0
    /\ stdout[Len(stdout)].msg = "Error loading image"
    /\ stdout[Len(stdout)].path2 = <<"h", "r", "/", "a", ".", "p", "n", "g">>

\* C7 (under SpecData): once constructed, the dataset's stored state is
\* changed by no step, whichever worker takes it and however the directories
\* change; so every __len__ returns the same length and every __getitem__
\* of one index resolves the same files.
C7_NoMutation ==
    [][/\ ds.constructed => ds' = ds
       /\ \A w \in Workers :
             (wk'[w].op = "len" /\ wk'[w].pc = "done") =>
                 wk'[w].result.value = Len(ds.image_files)
       /\ \A v, w \in Workers :
             (/\ wk'[v].op = "getitem" /\ wk'[v].pc = "paths"
              /\ wk'[w].op = "getitem" /\ wk'[w].name # <<>>
              /\ wk'[v].idx = wk'[w].idx) =>
                 /\ wk'[v].lowres_path = wk'[w].lowres_path
                 /\ wk'[v].highres_path = wk'[w].highres_path
      ]_vars

C7_Witness ==
    /\ ds.constructed
    /\ lowres_fs[c_jpeg] = "ok"
    /\ Len(ds.image_files) = 2
    /\ wk["w1"].op = "len" /\ wk["w1"].pc = "done" /\ wk["w1"].result.value = 2
    /\ wk["w2"].op = "getitem" /\ wk["w2"].pc = "done"
    /\ wk["w2"].result.status = "ok"

-----------------------------------------------------------------------------
(* Properties of save_checkpoint.                                          *)

\* C8 (under SpecSeq): every call of a sequence that starts without the
\* directory succeeds; after it the directory exists and holds the file
\* model_epoch_<epoch>_64_numfeatures.pth with the record of this call, and
\* there is one file per epoch saved, a repeated epoch replacing its file.
C8_SequentialSaves ==
    LET call == sv["c1"]
        name == SubSeq(call.path, Len(CheckpointDir) + 2, Len(call.path))
    IN  call.pc = "done" =>
            /\ call.status = "ok"
            /\ ckpt_fs.exists
            /\ SubSeq(call.path, 1, Len(CheckpointDir) + 1) = <<"c", "k", "/">>
            /\ SubSeq(name, 1, 12) =
                  <<"m", "o", "d", "e", "l", "_", "e", "p", "o", "c", "h", "_">>
            /\ call.epoch = 0 => SubSeq(name, 13, 14) = <<"0", "_">>
            /\ call.epoch = 7 => SubSeq(name, 13, 14) = <<"7", "_">>
            /\ call.epoch = 10 => SubSeq(name, 13, 15) = <<"1", "0", "_">>
            /\ SubSeq(name, Len(name) - 18, Len(name)) =
                  <<"_", "6", "4", "_", "n", "u", "m", "f", "e", "a", "t", "u", "r",
                    "e", "s", ".", "p", "t", "h">>
            /\ Len(name) = 31 + (IF call.epoch < 10 THEN 1 ELSE 2)
            /\ {f.obj : f \in {g \in ckpt_fs.files : g.path = call.path}} =
                  {[model_state_dict |-> call.model,
                    optimizer_state_dict |-> call.optimizer, epoch |-> call.epoch]}
            /\ \A f, g \in ckpt_fs.files :
                  (f.obj.epoch = g.obj.epoch) <=> (f.path = g.path)
            /\ \A f, g \in ckpt_fs.files : f.path = g.path => f = g
            /\ Cardinality(ckpt_fs.files) <= saves
            /\ stdout[Len(stdout)].path1 = call.path

C8_Witness ==
    /\ saves = 2
    /\ sv["c1"].pc = "done"
    /\ sv["c1"].status = "ok"
    /\ sv["c1"].epoch = 10
    /\ sv["c1"].model = "m2"
    /\ ckpt_fs.exists
    /\ ckpt_fs.files =
          {[path |-> CheckpointDir \o <<"/", "m", "o", "d", "e", "l", "_", "e", "p",
                       "o", "c", "h", "_", "1", "0", "_", "6", "4", "_", "n", "u",
                       "m", "f", "e", "a", "t", "u", "r", "e", "s", ".", "p", "t", "h">>,
            obj |-> [model_state_dict |-> "m2", optimizer_state_dict |-> "m1",
                     epoch |-> 10],
            open |-> {}, torn |-> FALSE]}
    /\ Len(stdout) = 2

\* C10 (under SpecConc): when callers run save_checkpoint concurrently on one
\* checkpoint_dir, every call that ends has succeeded and the directory
\* exists, under every interleaving of the existence checks and creations.
C10_ConcurrentSaves ==
    \A c \in Callers :
        sv[c].pc = "done" => (sv[c].status = "ok" /\ ckpt_fs.exists)

====
